---- MODULE Spec2Model ----
(***************************************************************************)
(* Elliptic-curve public keys (elliptic-curve/src/public_key.rs): the      *)
(* PublicKey wrapper around AffinePoint and its SEC1 encode/decode          *)
(* pipeline, over the toy short-Weierstrass curve y^2 = x^3 + x (mod 23).  *)
(***************************************************************************)
EXTENDS Integers, Sequences, FiniteSets, TLC

\* ---- curve parameters (CurveParameters of the curve plug-in) ----
P == 23            \* field prime
A == 1             \* coefficient a
B == 0             \* coefficient b
N == 1             \* byte length of a field element

\* ---- bounds of the input space ----
MaxByte == 24      \* bytes 0..MaxByte, and 255, are offered as input
MaxExtra == 1      \* bytes offered beyond the longest valid length 1+2N

ByteSet == (0..MaxByte) \cup {255}
TrailSet == {0, 255}

\* ---- Result / Option values ----
Ok(v) == [ok |-> TRUE, val |-> v]
Err(e) == [ok |-> FALSE, err |-> e]
Some(v) == [some |-> TRUE, val |-> v]
None == [some |-> FALSE]
NotRun == [run |-> FALSE]

\* Result::map_err(|_| Error)
map_err(r) == IF r.ok THEN r ELSE Err("Error")
\* Option::ok_or(Error)
ok_or(o) == IF o.some THEN Ok(o.val) ELSE Err("Error")

\* ---- field elements and their fixed-width big-endian bytes ----
RECURSIVE BytesToInt(_)
BytesToInt(s) ==
    IF Len(s) = 0 THEN 0
    ELSE 256 * BytesToInt(SubSeq(s, 1, Len(s) - 1)) + s[Len(s)]

RECURSIVE IntToBytes(_, _)
IntToBytes(v, n) ==
    IF n = 0 THEN << >>
    ELSE Append(IntToBytes(v \div 256, n - 1), v % 256)

RECURSIVE ModPow(_, _)
ModPow(b, e) ==
    IF e = 0 THEN 1 ELSE (b * ModPow(b, e - 1)) % P

\* right-hand side of the curve equation
Rhs(x) == (x * x * x + A * x + B) % P

IsOnCurve(x, y) == (y * y) % P = Rhs(x)

\* modular square root (P = 3 mod 4): the candidate root, if there is one
Sqrt(v) ==
    LET r == ModPow(v, (P + 1) \div 4)
    IN  IF (r * r) % P = v THEN Some(r) ELSE None

parityBit(y) == y % 2

\* ---- AffinePoint ----
Identity == [inf |-> TRUE, x |-> 0, y |-> 0]
Affine(x, y) == [inf |-> FALSE, x |-> x, y |-> y]
AffinePoints == {Identity} \cup {Affine(x, y) : x \in 0..(P - 1), y \in 0..(P - 1)}
IsValidPoint(p) == p.inf \/ IsOnCurve(p.x, p.y)

\* ---- EncodedPoint (SEC1 layout) ----
EncodedPoint(tag, body) == [tag |-> tag, body |-> body]
as_bytes(ep) == <<ep.tag>> \o ep.body
TagLen(tag) ==
    IF tag = 0 THEN 1 ELSE IF tag = 4 THEN 1 + 2 * N ELSE 1 + N

EncodedPoint_from_bytes(bytes) ==
    IF Len(bytes) = 0 THEN Err("InvalidLength")
    ELSE IF bytes[1] \notin {0, 2, 3, 4} THEN Err("InvalidTag")
    ELSE IF Len(bytes) # TagLen(bytes[1]) THEN Err("InvalidLength")
    ELSE Ok(EncodedPoint(bytes[1], SubSeq(bytes, 2, Len(bytes))))

\* AffinePoint -> EncodedPoint
AffinePoint_to_encoded_point(p, compress) ==
    IF p.inf THEN EncodedPoint(0, << >>)
    ELSE IF compress
         THEN EncodedPoint(2 + parityBit(p.y), IntToBytes(p.x, N))
         ELSE EncodedPoint(4, IntToBytes(p.x, N) \o IntToBytes(p.y, N))

\* EncodedPoint -> AffinePoint with the internal cause of a rejection
DecodeAffine(ep) ==
    IF ep.tag = 0 THEN Ok(Identity)
    ELSE IF ep.tag = 4 THEN
        LET x == BytesToInt(SubSeq(ep.body, 1, N))
            y == BytesToInt(SubSeq(ep.body, N + 1, 2 * N))
        IN  IF x >= P \/ y >= P THEN Err("CoordinateOutOfRange")
            ELSE IF ~IsOnCurve(x, y) THEN Err("PointNotOnCurve")
            ELSE Ok(Affine(x, y))
    ELSE
        LET x == BytesToInt(ep.body)
            bit == ep.tag % 2
        IN  IF x >= P THEN Err("CoordinateOutOfRange")
            ELSE LET r == Sqrt(Rhs(x))
                 IN  IF ~r.some THEN Err("PointNotOnCurve")
                     ELSE LET y == r.val
                              other == (P - y) % P
                          IN  IF parityBit(y) = bit THEN Ok(Affine(x, y))
                              ELSE IF parityBit(other) = bit THEN Ok(Affine(x, other))
                              ELSE Err("PointNotOnCurve")

AffinePoint_from_encoded_point(ep) ==
    LET d == DecodeAffine(ep) IN IF d.ok THEN Some(d.val) ELSE None

\* ProjectivePoint::from(AffinePoint)
ProjectivePoint_from(p) ==
    IF p.inf THEN [X |-> 0, Y |-> 1, Z |-> 0] ELSE [X |-> p.x, Y |-> p.y, Z |-> 1]

\* ---- PublicKey ----
PublicKey(point) == [point |-> point]

\* variant: an off-curve point is replaced by the default point
from_affine_validating(point) ==
    IF IsValidPoint(point) THEN PublicKey(point) ELSE PublicKey(Identity)

from_affine(point) == PublicKey(point)

to_projective(self) == ProjectivePoint_from(self.point)

as_ref(self) == self.point

deref(self) == self.point

\* variant: the decoded point is dropped and the default point wrapped
from_encoded_point_default(encoded_point) ==
    LET o == AffinePoint_from_encoded_point(encoded_point)
    IN  IF o.some THEN Some(PublicKey(Identity)) ELSE None

\* FromEncodedPoint for PublicKey
from_encoded_point(encoded_point) ==
    LET o == AffinePoint_from_encoded_point(encoded_point)
    IN  IF o.some THEN Some(PublicKey(o.val)) ELSE None

\* EncodedPoint::decode::<PublicKey>
EncodedPoint_decode(ep) == ok_or(from_encoded_point(ep))

\* variant: a failed decode falls back to the default key
try_from_lenient(encoded_point) ==
    LET r == EncodedPoint_decode(encoded_point)
    IN  IF r.ok THEN r ELSE Ok(PublicKey(Identity))

\* TryFrom<EncodedPoint> / TryFrom<&EncodedPoint>
try_from(encoded_point) == EncodedPoint_decode(encoded_point)

try_from_ref(encoded_point) == EncodedPoint_decode(encoded_point)

\* variant: the cause of a from_bytes failure is passed on (no map_err)
new_leaky(bytes) ==
    LET r == EncodedPoint_from_bytes(bytes)
    IN  IF r.ok THEN try_from(r.val) ELSE r

\* variant: a from_bytes failure falls back to the default EncodedPoint
new_default_on_error(bytes) ==
    LET r == EncodedPoint_from_bytes(bytes)
    IN  IF r.ok THEN try_from(r.val) ELSE try_from(EncodedPoint(0, << >>))

\* variant: the identity point is refused as a public key
new_reject_identity(bytes) ==
    LET r == map_err(EncodedPoint_from_bytes(bytes))
    IN  IF r.ok
        THEN LET k == try_from(r.val)
             IN  IF k.ok /\ k.val.point.inf THEN Err("Error") ELSE k
        ELSE r

\* variant: the second stage wraps the coordinates without validating them
new_unchecked(bytes) ==
    LET r == map_err(EncodedPoint_from_bytes(bytes))
    IN  IF r.ok
        THEN IF r.val.tag = 4
             THEN Ok(PublicKey(Affine(BytesToInt(SubSeq(r.val.body, 1, N)) % P,
                                      BytesToInt(SubSeq(r.val.body, N + 1, 2 * N)) % P)))
             ELSE try_from(r.val)
        ELSE r

new(bytes) ==
    LET r == map_err(EncodedPoint_from_bytes(bytes))
    IN  IF r.ok THEN try_from(r.val) ELSE r

\* variant: the compress argument is ignored
to_encoded_point_compressed(self, compress) == AffinePoint_to_encoded_point(self.point, TRUE)

\* ToEncodedPoint for PublicKey
to_encoded_point(self, compress) == AffinePoint_to_encoded_point(self.point, compress)

\* From<&PublicKey> for EncodedPoint
from_ref(public_key, COMPRESS_POINTS) == to_encoded_point(public_key, COMPRESS_POINTS)

\* variant: the curve's preference is ignored
from_uncompressed(public_key, COMPRESS_POINTS) == to_encoded_point(public_key, FALSE)

\* From<PublicKey> for EncodedPoint
from(public_key, COMPRESS_POINTS) == from_ref(public_key, COMPRESS_POINTS)

\* the internal cause of a failure of new(bytes), which new does not surface
Cause(bytes) ==
    LET r == EncodedPoint_from_bytes(bytes)
    IN  IF ~r.ok THEN r.err
        ELSE LET d == DecodeAffine(r.val) IN IF d.ok THEN "none" ELSE d.err

\* ---- the caller: one input, then the operations of the key ----
VARIABLES
    arg,             \* the input: bytes for new, or a point for from_affine
    compressPoints,  \* C::COMPRESS_POINTS of the curve
    key,             \* result of the construction
    cause,           \* internal cause of a failed construction
    view,            \* last read-only view of the key (as_ref, deref, to_projective)
    encVal,          \* EncodedPoint::from(public_key)
    encRef,          \* EncodedPoint::from(&public_key)
    enc,             \* to_encoded_point(compress) and the compress used
    dec,             \* decoding of enc, and the way it was decoded
    parsed           \* decoding of the EncodedPoint parsed from the input bytes

vars == <<arg, compressPoints, key, cause, view, encVal, encRef, enc, dec, parsed>>

RECURSIVE SeqsUpTo(_, _)
SeqsUpTo(S, n) ==
    IF n = 0 THEN {<< >>}
    ELSE LET T == SeqsUpTo(S, n - 1)
         IN  T \cup {Append(t, b) : t \in {u \in T : Len(u) = n - 1}, b \in S}

\* byte strings offered to new: everything up to the longest valid length,
\* and full-length strings followed by trailing bytes
Inputs ==
    SeqsUpTo(ByteSet, 1 + 2 * N) \cup
    {s \o t : s \in {u \in SeqsUpTo(ByteSet, 1 + 2 * N) : Len(u) = 1 + 2 * N},
              t \in SeqsUpTo(TrailSet, MaxExtra) \ {<< >>}}

Init ==
    /\ \/ \E b \in Inputs : arg = [kind |-> "bytes", bytes |-> b]
       \/ \E p \in AffinePoints : arg = [kind |-> "point", point |-> p]
    /\ compressPoints \in BOOLEAN
    /\ key = NotRun
    /\ cause = "none"
    /\ view = NotRun
    /\ encVal = NotRun
    /\ encRef = NotRun
    /\ enc = NotRun
    /\ dec = NotRun
    /\ parsed = NotRun

HasKey == key # NotRun /\ key.ok

New ==
    /\ key = NotRun
    /\ arg.kind = "bytes"
    /\ key' = new(arg.bytes)
    /\ cause' = Cause(arg.bytes)
    /\ UNCHANGED <<arg, compressPoints, view, encVal, encRef, enc, dec, parsed>>

FromAffine ==
    /\ key = NotRun
    /\ arg.kind = "point"
    /\ key' = Ok(from_affine(arg.point))
    /\ UNCHANGED <<arg, compressPoints, cause, view, encVal, encRef, enc, dec, parsed>>

AsRef ==
    /\ HasKey /\ view = NotRun
    /\ view' = [op |-> "as_ref", out |-> as_ref(key.val)]
    /\ UNCHANGED <<arg, compressPoints, key, cause, encVal, encRef, enc, dec, parsed>>

Deref ==
    /\ HasKey /\ view = NotRun
    /\ view' = [op |-> "deref", out |-> deref(key.val)]
    /\ UNCHANGED <<arg, compressPoints, key, cause, encVal, encRef, enc, dec, parsed>>

ToProjective ==
    /\ HasKey /\ view = NotRun
    /\ view' = [op |-> "to_projective", out |-> to_projective(key.val)]
    /\ UNCHANGED <<arg, compressPoints, key, cause, encVal, encRef, enc, dec, parsed>>

IntoEncodedPoint ==
    /\ HasKey /\ encVal = NotRun
    /\ encVal' = from(key.val, compressPoints)
    /\ UNCHANGED <<arg, compressPoints, key, cause, view, encRef, enc, dec, parsed>>

IntoEncodedPointRef ==
    /\ HasKey /\ encRef = NotRun
    /\ encRef' = from_ref(key.val, compressPoints)
    /\ UNCHANGED <<arg, compressPoints, key, cause, view, encVal, enc, dec, parsed>>

ToEncodedPoint ==
    /\ HasKey /\ enc = NotRun
    /\ \E compress \in BOOLEAN :
          enc' = [compress |-> compress, ep |-> to_encoded_point(key.val, compress)]
    /\ UNCHANGED <<arg, compressPoints, key, cause, view, encVal, encRef, dec, parsed>>

DecodeNew ==
    /\ enc # NotRun /\ dec = NotRun
    /\ dec' = [via |-> "new", res |-> new(as_bytes(enc.ep))]
    /\ UNCHANGED <<arg, compressPoints, key, cause, view, encVal, encRef, enc, parsed>>

DecodeTryFrom ==
    /\ enc # NotRun /\ dec = NotRun
    /\ dec' = [via |-> "try_from", res |-> try_from(enc.ep)]
    /\ UNCHANGED <<arg, compressPoints, key, cause, view, encVal, encRef, enc, parsed>>

DecodeTryFromRef ==
    /\ enc # NotRun /\ dec = NotRun
    /\ dec' = [via |-> "try_from_ref", res |-> try_from_ref(enc.ep)]
    /\ UNCHANGED <<arg, compressPoints, key, cause, view, encVal, encRef, enc, parsed>>

DecodeFromEncodedPoint ==
    /\ enc # NotRun /\ dec = NotRun
    /\ dec' = [via |-> "from_encoded_point", res |-> from_encoded_point(enc.ep)]
    /\ UNCHANGED <<arg, compressPoints, key, cause, view, encVal, encRef, enc, parsed>>

\* the EncodedPoint that EncodedPoint::from_bytes makes of the input
ParsedInput == EncodedPoint_from_bytes(arg.bytes)

FromEncodedPoint ==
    /\ arg.kind = "bytes" /\ parsed = NotRun /\ ParsedInput.ok
    /\ parsed' = [via |-> "from_encoded_point", res |-> from_encoded_point(ParsedInput.val)]
    /\ UNCHANGED <<arg, compressPoints, key, cause, view, encVal, encRef, enc, dec>>

TryFrom ==
    /\ arg.kind = "bytes" /\ parsed = NotRun /\ ParsedInput.ok
    /\ parsed' = [via |-> "try_from", res |-> try_from(ParsedInput.val)]
    /\ UNCHANGED <<arg, compressPoints, key, cause, view, encVal, encRef, enc, dec>>

TryFromRef ==
    /\ arg.kind = "bytes" /\ parsed = NotRun /\ ParsedInput.ok
    /\ parsed' = [via |-> "try_from_ref", res |-> try_from_ref(ParsedInput.val)]
    /\ UNCHANGED <<arg, compressPoints, key, cause, view, encVal, encRef, enc, dec>>

Next ==
    \/ New
    \/ FromAffine
    \/ AsRef
    \/ Deref
    \/ ToProjective
    \/ IntoEncodedPoint
    \/ IntoEncodedPointRef
    \/ ToEncodedPoint
    \/ DecodeNew
    \/ DecodeTryFrom
    \/ DecodeTryFromRef
    \/ DecodeFromEncodedPoint
    \/ FromEncodedPoint
    \/ TryFrom
    \/ TryFromRef

Spec == Init /\ [][Next]_vars

\* ---- properties ----

\* C1: round trip. For every valid AffinePoint p (Identity or on-curve) and for
\* both values of compress, PublicKey::new on the bytes of
\* from_affine(p).to_encoded_point(compress) succeeds with a key wrapping p.
C1_RoundTrip ==
    (/\ arg.kind = "point" /\ IsValidPoint(arg.point)
     /\ enc # NotRun /\ dec # NotRun /\ dec.via = "new")
        => dec.res = Ok(PublicKey(arg.point))

C1_Witness ==
    /\ arg.kind = "point" /\ ~arg.point.inf /\ IsValidPoint(arg.point)
    /\ enc # NotRun /\ enc.compress
    /\ dec # NotRun /\ dec.via = "new" /\ dec.res.ok

\* C2: new(bytes) returns a key exactly when EncodedPoint::from_bytes and then
\* AffinePoint::from_encoded_point both succeed; every failure, whatever its
\* stage or cause, is the one opaque Error value.
C2_OpaqueError ==
    (arg.kind = "bytes" /\ key # NotRun) =>
        LET r == EncodedPoint_from_bytes(arg.bytes)
            both == r.ok /\ AffinePoint_from_encoded_point(r.val).some
        IN  /\ key.ok <=> both
            /\ key.ok <=> (cause = "none")
            /\ key.ok => key.val = PublicKey(AffinePoint_from_encoded_point(r.val).val)
            /\ ~key.ok => key = Err("Error")

C2_Witness ==
    /\ arg.kind = "bytes" /\ key # NotRun /\ ~key.ok
    /\ cause = "InvalidTag" /\ key = Err("Error")

\* C3: an uncompressed encoding (tag 0x04, length 1+2N) is accepted iff x < p,
\* y < p and y^2 = x^3 + a*x + b (mod p); a coordinate >= p is rejected as
\* CoordinateOutOfRange, an off-curve (x, y) as PointNotOnCurve, and an
\* accepted key wraps exactly (x, y).
C3_Uncompressed ==
    (/\ arg.kind = "bytes" /\ key # NotRun
     /\ Len(arg.bytes) = 1 + 2 * N /\ arg.bytes[1] = 4) =>
        LET x == BytesToInt(SubSeq(arg.bytes, 2, 1 + N))
            y == BytesToInt(SubSeq(arg.bytes, 2 + N, 1 + 2 * N))
        IN  /\ key.ok <=> (x < P /\ y < P /\ (y * y) % P = (x * x * x + A * x + B) % P)
            /\ (x >= P \/ y >= P) => (~key.ok /\ cause = "CoordinateOutOfRange")
            /\ (x < P /\ y < P /\ (y * y) % P # (x * x * x + A * x + B) % P)
                  => (~key.ok /\ cause = "PointNotOnCurve")
            /\ key.ok => key.val.point = Affine(x, y)

C3_Witness ==
    /\ arg.kind = "bytes" /\ key # NotRun /\ ~key.ok
    /\ Len(arg.bytes) = 1 + 2 * N /\ arg.bytes[1] = 4
    /\ cause = "PointNotOnCurve"

\* C4: parity selection. For x < p whose x^3 + a*x + b has the two roots y and
\* p - y, tag 0x02 with body x decodes to (x, even root) and tag 0x03 to
\* (x, odd root); in particular [0x03,0x01] gives (1,5) and [0x02,0x01] (1,18).
C4_ParitySelection ==
    (/\ arg.kind = "bytes" /\ key # NotRun
     /\ Len(arg.bytes) = 1 + N /\ arg.bytes[1] \in {2, 3}) =>
        LET x == BytesToInt(SubSeq(arg.bytes, 2, 1 + N))
            bit == arg.bytes[1] - 2
            roots == {y \in 0..(P - 1) : (y * y) % P = (x * x * x + A * x + B) % P}
        IN  /\ (x < P /\ Cardinality(roots) = 2) =>
                  /\ key.ok
                  /\ key.val.point.x = x
                  /\ key.val.point.y \in roots
                  /\ key.val.point.y % 2 = bit
            /\ arg.bytes = <<3, 1>> => key = Ok(PublicKey(Affine(1, 5)))
            /\ arg.bytes = <<2, 1>> => key = Ok(PublicKey(Affine(1, 18)))

C4_Witness ==
    /\ arg.kind = "bytes" /\ arg.bytes = <<2, 1>>
    /\ key # NotRun /\ key.ok /\ key.val.point.y = 18

\* C5: a compressed encoding (tag 0x02 or 0x03, length 1+N) whose x has no
\* curve point (x^3 + a*x + b has no square root mod p) is rejected:
\* from_encoded_point gives none and new gives Error.
C5_NoRootRejected ==
    (/\ arg.kind = "bytes"
     /\ Len(arg.bytes) = 1 + N /\ arg.bytes[1] \in {2, 3}) =>
        LET x == BytesToInt(SubSeq(arg.bytes, 2, 1 + N))
            roots == {y \in 0..(P - 1) : (y * y) % P = (x * x * x + A * x + B) % P}
        IN  (x < P /\ roots = {}) =>
               /\ key # NotRun => key = Err("Error")
               /\ (parsed # NotRun /\ parsed.via = "from_encoded_point") => parsed.res = None
               /\ (parsed # NotRun /\ parsed.via # "from_encoded_point") => parsed.res = Err("Error")

C5_Witness ==
    /\ arg.kind = "bytes" /\ arg.bytes = <<3, 2>>
    /\ key = Err("Error")
    /\ parsed # NotRun /\ parsed.via = "from_encoded_point" /\ parsed.res = None

\* C6: a byte sequence whose tag is not 0x00, 0x02, 0x03 or 0x04 is rejected
\* by new whatever its length and remaining bytes.
C6_BadTagRejected ==
    (/\ arg.kind = "bytes" /\ key # NotRun
     /\ Len(arg.bytes) >= 1 /\ arg.bytes[1] \notin {0, 2, 3, 4})
        => key = Err("Error")

C6_Witness ==
    /\ arg.kind = "bytes" /\ key # NotRun
    /\ Len(arg.bytes) = 1 + N /\ arg.bytes[1] = 5 /\ arg.bytes[2] = 1
    /\ ~key.ok

\* C7: to_encoded_point(true) has length 1+N and tag 0x02 | parityBit(y) for
\* a non-identity point, to_encoded_point(false) has length 1+2N and tag 0x04;
\* for Identity both have length 1.
C7_LengthAndTag ==
    (HasKey /\ enc # NotRun) =>
        LET p == key.val.point
            bytes == as_bytes(enc.ep)
        IN  /\ p.inf => Len(bytes) = 1
            /\ (~p.inf /\ enc.compress) =>
                  (Len(bytes) = 1 + N /\ bytes[1] = 2 + (p.y % 2))
            /\ (~p.inf /\ ~enc.compress) =>
                  (Len(bytes) = 1 + 2 * N /\ bytes[1] = 4)

C7_Witness ==
    /\ HasKey /\ ~key.val.point.inf /\ key.val.point.y % 2 = 1
    /\ enc # NotRun /\ enc.compress /\ as_bytes(enc.ep)[1] = 3

\* C8: identity scenario. Encoding Identity gives exactly [0x00] for both
\* values of compress; decoding [0x00] gives Identity; decoding [0x00,0xFF]
\* fails with InvalidLength.
C8_Identity ==
    /\ (HasKey /\ key.val.point = Identity /\ enc # NotRun) => as_bytes(enc.ep) = <<0>>
    /\ (arg.kind = "bytes" /\ arg.bytes = <<0>> /\ key # NotRun)
          => key = Ok(PublicKey(Identity))
    /\ (arg.kind = "bytes" /\ arg.bytes = <<0, 255>> /\ key # NotRun)
          => (key = Err("Error") /\ cause = "InvalidLength")

C8_Witness ==
    /\ arg.kind = "bytes" /\ arg.bytes = <<0>>
    /\ HasKey /\ key.val.point = Identity
    /\ enc # NotRun /\ ~enc.compress /\ as_bytes(enc.ep) = <<0>>

\* C9: from_affine performs no re-validation: for every AffinePoint, on the
\* curve or not, it returns a key wrapping exactly that point, so as_ref,
\* deref and to_encoded_point give what the point gives and to_projective
\* its projective conversion.
C9_FromAffine ==
    arg.kind = "point" =>
        /\ key # NotRun => key = Ok(PublicKey(arg.point))
        /\ (view # NotRun /\ view.op \in {"as_ref", "deref"}) => view.out = arg.point
        /\ (view # NotRun /\ view.op = "to_projective")
              => view.out = ProjectivePoint_from(arg.point)
        /\ enc # NotRun => enc.ep = AffinePoint_to_encoded_point(arg.point, enc.compress)

C9_Witness ==
    /\ arg.kind = "point" /\ ~IsValidPoint(arg.point)
    /\ HasKey /\ view # NotRun /\ view.op = "as_ref" /\ enc # NotRun

\* C10: EncodedPoint::from(public_key) and EncodedPoint::from(&public_key)
\* both give to_encoded_point(C::COMPRESS_POINTS): the compressed form when the
\* curve's default is true, the uncompressed form when it is false, and the
\* two conversions agree.
C10_DefaultCompression ==
    HasKey =>
        LET p == key.val.point
            Form(e) ==
                /\ e = AffinePoint_to_encoded_point(p, compressPoints)
                /\ ~p.inf => (e.tag \in {2, 3} <=> compressPoints)
                /\ ~p.inf => (e.tag = 4 <=> ~compressPoints)
        IN  /\ encVal # NotRun => Form(encVal)
            /\ encRef # NotRun => Form(encRef)
            /\ (encVal # NotRun /\ encRef # NotRun) => encVal = encRef

C10_Witness ==
    /\ HasKey /\ ~key.val.point.inf /\ compressPoints
    /\ encVal # NotRun /\ encRef # NotRun /\ encVal.tag \in {2, 3}

====
